---- MODULE Spec2Model ----
(***************************************************************************)
(* A model of src/neural_style.py: one render of the style-transfer        *)
(* program, from parse_args to write_image_output, and the weight          *)
(* normalisation it applies to its three weight lists.                     *)
(*                                                                         *)
(* The model follows the control flow of the functions as they are         *)
(* written.  Two slips of the source are read as their evident intent, so  *)
(* that there is a program to model at all: the second '--beta1' option    *)
(* (lines 110-112) is the '--beta2' that get_optimizer reads, and the      *)
(* string concatenation on line 464 has the '+' signs it lacks.            *)
(***************************************************************************)
EXTENDS Integers, Sequences, FiniteSets, TLC

(***************************************************************************)
(* Python floats.  A float is an IEEE-754 binary64 number: a sign, a       *)
(* 53-bit significand m (2^52 <= m < 2^53, or m = 0 for zero) and an       *)
(* exponent e, of value (-1)^neg * m * 2^e.  The significand is kept in    *)
(* two limbs of 28 bits, m = hi * 2^28 + lo, so that every intermediate    *)
(* stays below 2^31.  Results are rounded to nearest, ties to even, as the *)
(* hardware does.  Infinities, NaNs and subnormals are out of reach of the *)
(* weights modelled here.                                                  *)
(***************************************************************************)
Limb == 2^28

\* A significand of 53 bits has its upper limb in [2^24, 2^25).
HiMin == 2^24

HiMax == 2^25

ULt(a, b) == a[1] < b[1] \/ (a[1] = b[1] /\ a[2] < b[2])

UAdd(a, b) == LET lo == a[2] + b[2] IN <<a[1] + b[1] + (lo \div Limb), lo % Limb>>

USub(a, b) ==
  IF a[2] >= b[2] THEN <<a[1] - b[1], a[2] - b[2]>>
                  ELSE <<a[1] - b[1] - 1, a[2] + Limb - b[2]>>

UDbl(a) == UAdd(a, a)

UHalf(a) == <<a[1] \div 2, (a[1] % 2) * (Limb \div 2) + (a[2] \div 2)>>

UOdd(a) == a[2] % 2 = 1

UOne == <<0, 1>>

UZero == <<0, 0>>

FZero == [neg |-> FALSE, m |-> UZero, e |-> 0]

IsZero(x) == x.m = UZero

\* Rounding state st = <<q, e, guard, sticky>>: the number q * 2^e with a guard
\* bit and a sticky bit below it.  Norm brings q into [2^52, 2^53).
RECURSIVE Norm(_)
Norm(st) ==
  IF st[1][1] < HiMin THEN Norm(<<UDbl(st[1]), st[2] - 1, FALSE, FALSE>>)
  ELSE IF st[1][1] >= HiMax
    THEN Norm(<<UHalf(st[1]), st[2] + 1, UOdd(st[1]), st[4] \/ st[3]>>)
  ELSE st

\* q * 2^e (with sticky bits below q) rounded to nearest, ties to even.
RoundPack(neg, q, e, sticky) ==
  IF q = UZero THEN FZero
  ELSE LET st == Norm(<<q, e, FALSE, sticky>>)
           up == st[3] /\ (st[4] \/ UOdd(st[1]))
           q1 == IF up THEN UAdd(st[1], UOne) ELSE st[1]
       IN  IF q1[1] >= HiMax
             THEN [neg |-> neg, m |-> <<HiMin, 0>>, e |-> st[2] + 1]
             ELSE [neg |-> neg, m |-> q1, e |-> st[2]]

\* float(n) of a Python int n.
FromInt(n) == RoundPack(n < 0, <<0, IF n < 0 THEN -n ELSE n>>, 0, FALSE)

\* Restoring division of two significands: from st = <<q, r>>, the quotient
\* bits so far and the remainder, n more bits of the quotient by d.
RECURSIVE DivBits(_, _, _)
DivBits(st, d, n) ==
  IF n = 0 THEN st
  ELSE LET r2 == UDbl(st[2])
       IN  IF ULt(r2, d)
             THEN DivBits(<<UDbl(st[1]), r2>>, d, n - 1)
             ELSE DivBits(<<UAdd(UDbl(st[1]), UOne), USub(r2, d)>>, d, n - 1)

\* x / y for y # 0: 55 bits of the quotient after its leading bit, then rounded.
FDiv(x, y) ==
  IF IsZero(x) THEN FZero
  ELSE LET st0 == IF ULt(x.m, y.m) THEN <<UZero, x.m>>
                                   ELSE <<UOne, USub(x.m, y.m)>>
           qr  == DivBits(st0, y.m, 55)
       IN  RoundPack(x.neg # y.neg, qr[1], x.e - y.e - 55,
                     qr[2] # UZero)

\* st = <<u, sticky>>: u shifted right by n bits, sticky set once a 1 has been
\* shifted out.
RECURSIVE ShiftRightSticky(_, _)
ShiftRightSticky(st, n) ==
  IF n = 0 \/ st[1] = UZero THEN st
  ELSE ShiftRightSticky(<<UHalf(st[1]), st[2] \/ UOdd(st[1])>>, n - 1)

MagLt(x, y) == x.e < y.e \/ (x.e = y.e /\ ULt(x.m, y.m))

\* x + y.
FAdd(x, y) ==
  IF IsZero(x) THEN (IF IsZero(y) THEN FZero ELSE y)
  ELSE IF IsZero(y) THEN x
  ELSE LET big   == IF MagLt(x, y) THEN y ELSE x
           small == IF MagLt(x, y) THEN x ELSE y
           d     == big.e - small.e
           b8    == UDbl(UDbl(UDbl(big.m)))
           ss    == ShiftRightSticky(<<UDbl(UDbl(UDbl(small.m))), FALSE>>, d)
       IN  IF big.neg = small.neg
             THEN RoundPack(big.neg, UAdd(b8, ss[1]), big.e - 3, ss[2])
             ELSE LET r == USub(b8, ss[1])
                  IN  RoundPack(big.neg,
                                IF ss[2] THEN USub(r, UOne) ELSE r,
                                big.e - 3, ss[2])

\* x > 0.
FPos(x) == ~IsZero(x) /\ ~x.neg

\* The float a command-line word n/d (such as 3/10 for "0.3") parses to.
ParseFloat(n, d) == FDiv(FromInt(n), FromInt(d))

\* |x|.
FAbs(x) == [x EXCEPT !.neg = FALSE]

\* -x.
FNeg(x) == IF IsZero(x) THEN x ELSE [x EXCEPT !.neg = ~x.neg]

\* x * 2^k, exact.
FScale(x, k) == IF IsZero(x) THEN x ELSE [x EXCEPT !.e = x.e + k]

\* k * a for a small k >= 0.
RECURSIVE UTimes(_, _)
UTimes(k, a) == IF k = 0 THEN UZero ELSE UAdd(UTimes(k - 1, a), a)

\* float(k) * x for a Python int k, 0 <= k < 16.
FTimes(k, x) == RoundPack(x.neg, UTimes(k, x.m), x.e, FALSE)

\* x <= y for x, y >= 0.
FLeq(x, y) == IsZero(x) \/ (~IsZero(y) /\ ~MagLt(y, x))

\* Python's sum(weights): 0 + weights[1] + ... + weights[n], left to right.
RECURSIVE sum(_)
sum(weights) ==
  IF weights = <<>> THEN FZero
  ELSE FAdd(sum(SubSeq(weights, 1, Len(weights) - 1)), weights[Len(weights)])

\* A plausible slip: the weights are returned as they are when they already
\* look like fractions (sum at most 1), instead of being divided by their sum.
normalize_unless_small(weights) ==
  LET denom == sum(weights)
  IN  IF FPos(denom)
        THEN IF FLeq(denom, FromInt(1)) THEN weights
             ELSE [i \in 1..Len(weights) |-> FDiv(weights[i], denom)]
        ELSE [i \in 1..Len(weights) |-> FZero]

\* normalize (lines 354-358).
normalize(weights) ==
  LET denom == sum(weights)
  IN  IF FPos(denom)
        THEN [i \in 1..Len(weights) |-> FDiv(weights[i], denom)]
        ELSE [i \in 1..Len(weights) |-> FZero]

(***************************************************************************)
(* The render.                                                             *)
(***************************************************************************)
VARIABLES
  argv,        \* the command line: the options as given, weights as decimal words
  args,        \* the argparse Namespace (global args)
  pc,          \* where the program is
  failure,     \* the exception that ended the program, "" if none
  missing,     \* the files that were looked for and not found
  content_img, \* the preprocessed content image
  style_imgs,  \* the preprocessed style images
  net,         \* the layers build_model has made, in order
  style_index, \* sum_style_losses' position in its loop over the style images
  input,       \* the value of the variable net['input']
  refs,        \* the reference activations that went into the loss, in order
  block,       \* the optimisation loops' counters
  iteration,
  steps,       \* optimiser runs so far: train_op runs (Adam), minimize calls (L-BFGS)
  writes,      \* every file written so far, in order
  dirs         \* the directories made so far

vars == <<argv, args, pc, failure, missing, content_img, style_imgs, net, style_index,
          input, refs, block, iteration, steps, writes, dirs>>

\* Bounds of the command lines explored.
MaxBlocks == 2

MaxIter == 2

MaxPrint == 2

MaxLen == 2

\* A decimal word <<n, d>> stands for the text of n/d, d a power of ten.
WeightNums == {-1, 0, 1, 3, 7}

WeightDens == {1, 10}

Words == WeightNums \X WeightDens

WordLists(maxlen) == UNION {[1..n -> Words] : n \in 0..maxlen}

One == <<1, 1>>

Ones(n) == [i \in 1..n |-> One]

\* What the render's lists may be: layer names, image file names, weights.
StyleLayerChoices == {<<"relu1_1">>, <<"relu1_1", "relu2_1">>}

ContentLayerChoices == {<<"conv4_2">>, <<"conv4_2", "conv5_2">>}

StyleImgChoices == {<<"s1.jpg">>, <<"s1.jpg", "s2.jpg">>}

WeightChoices == {Ones(1), Ones(2)}

\* --content_layer_weights is left at its default, [1.0].
ContentWeightChoices == {Ones(1)}

Optimizers == {"lbfgs", "adam"}

Floats(words) == [i \in 1..Len(words) |-> ParseFloat(words[i][1], words[i][2])]

\* parser.parse_args() (line 131): the options with type=float converted.
Namespace(av) ==
  [av EXCEPT !.style_imgs_weights    = Floats(av.style_imgs_weights),
             !.style_layer_weights   = Floats(av.style_layer_weights),
             !.content_layer_weights = Floats(av.content_layer_weights)]

\* The tensors of the model: images, and what the optimiser makes of them.
Uninit == [kind |-> "uninitialized", n |-> 0]

Zeros == [kind |-> "zeros", n |-> 0]

ContentImage == [kind |-> "content", n |-> 0]

StyleImage(k) == [kind |-> "style", n |-> k]

\* The variable after the n-th optimiser run.
Optimized(n) == [kind |-> "optimized", n |-> n]

\* The command lines explored.
CommandLines ==
  [verbose: BOOLEAN, img_name: BOOLEAN,
   style_imgs: StyleImgChoices, style_imgs_weights: WeightChoices,
   content_layers: ContentLayerChoices,
   content_layer_weights: ContentWeightChoices,
   style_layers: StyleLayerChoices, style_layer_weights: WeightChoices,
   optimizer: Optimizers, blocks: 0..MaxBlocks,
   max_iterations: 0..MaxIter, print_iterations: 0..MaxPrint]

\* The program at line 131 of parse_args, started with a command line of `lines`.
Start(lines) ==
  /\ argv \in lines
  /\ args = Namespace(argv)
  /\ pc = "parse_args"
  /\ failure = ""
  /\ missing = {}
  /\ content_img = Uninit
  /\ style_imgs = <<>>
  /\ net = <<>>
  /\ style_index = 0
  /\ input = Uninit
  /\ refs = <<>>
  /\ block = 0
  /\ iteration = 0
  /\ steps = 0
  /\ writes = <<>>
  /\ dirs = {}

Init == Start(CommandLines)

\* maybe_make_directory (lines 360-362); os.makedirs makes the parents too.
Parents(dir) ==
  CASE dir = "img_output_dir" -> {"img_output_dir"}
    [] dir = "out_dir"        -> {"img_output_dir", "out_dir"}
    [] dir = "out_dir/iters"  -> {"img_output_dir", "out_dir", "out_dir/iters"}

maybe_make_directory(made, dir_path) == made \cup Parents(dir_path)

\* The directories after parse_args (line 139).
parse_args_dirs(made) == maybe_make_directory(made, "img_output_dir")

\* parse_args, after parser.parse_args() (lines 133-141).
ParseArgs ==
  /\ pc = "parse_args"
  /\ args' = [args EXCEPT
                !.style_layer_weights   = normalize(args.style_layer_weights),
                !.content_layer_weights = normalize(args.content_layer_weights),
                !.style_imgs_weights    = normalize(args.style_imgs_weights)]
  /\ dirs' = parse_args_dirs(dirs)
  /\ pc' = "get_content_image"
  /\ UNCHANGED <<argv, failure, missing, content_img, style_imgs, net,
                 style_index, input,
                 refs, block, iteration, steps, writes>>

\* A slip: the check lets a missing image through.
check_image_lenient(found) == TRUE

\* check_image (lines 364-366): does the image pass (was the file read)?
check_image(found) == found

\* The program ends with exception e.
Raise(e) == pc' = "failed" /\ failure' = e

\* get_content_image (lines 518-534); cv2.imread gives None for a missing file.
GetContentImage ==
  /\ pc = "get_content_image"
  /\ \E found \in BOOLEAN :
       /\ missing' = IF found THEN missing ELSE missing \cup {"content_img"}
       /\ IF check_image(found)
            THEN /\ content_img' = ContentImage
                 /\ pc' = "get_style_images"
                 /\ UNCHANGED failure
            ELSE /\ Raise("OSError")
                 /\ UNCHANGED content_img
  /\ UNCHANGED <<argv, args, style_imgs, net, style_index, input, refs, block, iteration,
                 steps, writes, dirs>>

\* The style files the loop of get_style_images reads: all of them, or those up
\* to the first that fails check_image.
RECURSIVE StyleFilesRead(_, _)
StyleFilesRead(found, i) ==
  IF i > Len(found) THEN Len(found)
  ELSE IF check_image(found[i]) THEN StyleFilesRead(found, i + 1) ELSE i

\* get_style_images (lines 536-548).
GetStyleImages ==
  /\ pc = "get_style_images"
  /\ \E found \in [1..Len(args.style_imgs) -> BOOLEAN] :
       LET read == StyleFilesRead(found, 1)
       IN  /\ missing' = missing \cup
                           {args.style_imgs[i] : i \in {j \in 1..read : ~found[j]}}
           /\ IF \A i \in 1..read : check_image(found[i])
                THEN /\ style_imgs' = [i \in 1..Len(args.style_imgs) |-> StyleImage(i)]
                     /\ pc' = "build_model"
                     /\ UNCHANGED failure
                ELSE /\ Raise("OSError")
                     /\ UNCHANGED style_imgs
  /\ UNCHANGED <<argv, args, content_img, net, style_index, input, refs, block,
                 iteration, steps, writes, dirs>>

\* init_img of render_image (line 555).
init_img == content_img

\* A slip: an index that counts the store's entries from one.
get_weights_from_one(i) == <<i + 1, 0>>

\* get_weights (lines 244-247): entry i of the store, its first array.
get_weights(i) == <<i, 0>>

\* get_bias (lines 249-252): entry i of the store, its second array.
get_bias(i) == <<i, 1>>

NoParam == <<-1, -1>>

\* conv_layer (lines 224-228).
conv_layer(layer_name, layer_input, W) ==
  [name |-> layer_name, op |-> "conv2d", input |-> layer_input, param |-> W]

\* relu_layer (lines 230-235).
relu_layer(layer_name, layer_input, b) ==
  [name |-> layer_name, op |-> "relu", input |-> layer_input, param |-> b]

\* pool_layer (lines 237-242).
pool_layer(layer_name, layer_input) ==
  [name |-> layer_name, op |-> "avg_pool", input |-> layer_input, param |-> NoParam]

\* build_model's layers, in the order it makes them (lines 160-220).
build_model ==
  << conv_layer("conv1_1", "input",   get_weights(0)),
     relu_layer("relu1_1", "conv1_1", get_bias(0)),
     conv_layer("conv1_2", "relu1_1", get_weights(2)),
     relu_layer("relu1_2", "conv1_2", get_bias(2)),
     pool_layer("pool1",   "relu1_2"),
     conv_layer("conv2_1", "pool1",   get_weights(5)),
     relu_layer("relu2_1", "conv2_1", get_bias(5)),
     conv_layer("conv2_2", "relu2_1", get_weights(7)),
     relu_layer("relu2_2", "conv2_2", get_bias(7)),
     pool_layer("pool2",   "relu2_2"),
     conv_layer("conv3_1", "pool2",   get_weights(10)),
     relu_layer("relu3_1", "conv3_1", get_bias(10)),
     conv_layer("conv3_2", "relu3_1", get_weights(12)),
     relu_layer("relu3_2", "conv3_2", get_bias(12)),
     conv_layer("conv3_3", "relu3_2", get_weights(14)),
     relu_layer("relu3_3", "conv3_3", get_bias(14)),
     conv_layer("conv3_4", "relu3_3", get_weights(16)),
     relu_layer("relu3_4", "conv3_4", get_bias(16)),
     pool_layer("pool3",   "relu3_4"),
     conv_layer("conv4_1", "pool3",   get_weights(19)),
     relu_layer("relu4_1", "conv4_1", get_bias(19)),
     conv_layer("conv4_2", "relu4_1", get_weights(21)),
     relu_layer("relu4_2", "conv4_2", get_bias(21)),
     conv_layer("conv4_3", "relu4_2", get_weights(23)),
     relu_layer("relu4_3", "conv4_3", get_bias(23)),
     conv_layer("conv4_4", "relu4_3", get_weights(25)),
     relu_layer("relu4_4", "conv4_4", get_bias(25)),
     pool_layer("pool4",   "relu4_4"),
     conv_layer("conv5_1", "pool4",   get_weights(28)),
     relu_layer("relu5_1", "conv5_1", get_bias(28)),
     conv_layer("conv5_2", "relu5_1", get_weights(30)),
     relu_layer("relu5_2", "conv5_2", get_bias(30)),
     conv_layer("conv5_3", "relu5_2", get_weights(32)),
     relu_layer("relu5_3", "conv5_3", get_bias(32)),
     conv_layer("conv5_4", "relu5_3", get_weights(34)),
     relu_layer("relu5_4", "conv5_4", get_bias(34)),
     pool_layer("pool5",   "relu5_4") >>

\* stylize, first step (line 374): build_model; scipy.io.loadmat raises when
\* the weight file is not there.  net['input'] is made, not yet initialised.
BuildModel ==
  /\ pc = "build_model"
  /\ \E found \in BOOLEAN :
       IF found
         THEN /\ net' = build_model
              /\ pc' = "sum_style_losses"
              /\ UNCHANGED <<failure, missing>>
         ELSE /\ Raise("IOError")
              /\ missing' = missing \cup {"model_weights"}
              /\ UNCHANGED net
  /\ UNCHANGED <<argv, args, content_img, style_imgs, style_index, input, refs,
                 block, iteration, steps, writes, dirs>>

Min(a, b) == IF a < b THEN a ELSE b

\* The layers zip(layers, weights) pairs with a weight (lines 285, 298).
Zipped(layers, weights) == SubSeq(layers, 1, Min(Len(layers), Len(weights)))

\* sess.run(net[layer]) for each zipped layer, with net['input'] holding `img`.
Activations(loss, k, layers, weights, img) ==
  [j \in 1..Len(Zipped(layers, weights)) |->
     [loss |-> loss, img |-> k, layer |-> layers[j], of |-> img]]

\* sum_style_losses (lines 279-293), one turn of its loop over
\* zip(style_imgs, weights).
SumStyleLosses ==
  /\ pc = "sum_style_losses"
  /\ LET k == style_index + 1
     IN  /\ input' = style_imgs[k]
         /\ refs' = refs \o Activations("style", k, args.style_layers,
                                        args.style_layer_weights, input')
         /\ style_index' = k
         /\ pc' = IF k < Min(Len(style_imgs), Len(args.style_imgs_weights))
                    THEN "sum_style_losses" ELSE "sum_content_losses"
  /\ UNCHANGED <<argv, args, failure, missing, content_img, style_imgs, net,
                 block, iteration, steps, writes, dirs>>

\* sum_content_losses (lines 295-304).
SumContentLosses ==
  /\ pc = "sum_content_losses"
  /\ input' = content_img
  /\ refs' = refs \o Activations("content", 0, args.content_layers,
                                 args.content_layer_weights, input')
  /\ pc' = IF args.optimizer = "adam" THEN "minimize_with_adam"
                                      ELSE "minimize_with_lbfgs"
  /\ UNCHANGED <<argv, args, failure, missing, content_img, style_imgs, net,
                 style_index, block, iteration, steps, writes, dirs>>

\* get_image_savename's directory (lines 455-474): the render's directory, or
\* its 'iters' subfolder.
out_dir(blk, iter) ==
  IF blk < args.blocks \/ iter < args.max_iterations THEN "out_dir/iters"
                                                     ELSE "out_dir"

\* get_image_savename's file name (lines 476-479).
img_name(blk, iter) == IF args.img_name THEN "img_name" ELSE "block.iteration.png"

\* One file written: what it is, where it goes, the get_image_savename call
\* (or loop index) it is named after, the tensor in it, and the number n of
\* optimiser runs that came before it.
Written(what, dir, name, at, img, n) ==
  [what |-> what, dir |-> dir, name |-> name, at |-> at, img |-> img,
   steps |-> n]

\* A checkpoint: get_image_savename(block, iteration), then write_image
\* (lines 416-418 and 437-439).
Checkpoint(blk, iter, img, n) ==
  /\ writes' = Append(writes, Written("checkpoint", out_dir(blk, iter),
                                      img_name(blk, iter), <<blk, iter>>, img, n))
  /\ dirs' = maybe_make_directory(dirs, out_dir(blk, iter))

\* minimize_with_lbfgs: the initialiser (lines 409-410) sets every variable to
\* its initial value, zeros for net['input'].
LbfgsInitialize ==
  /\ pc = "minimize_with_lbfgs"
  /\ input' = Zeros
  /\ pc' = "lbfgs_assign"
  /\ UNCHANGED <<argv, args, failure, missing, content_img, style_imgs, net,
                 style_index, refs, block, iteration, steps, writes, dirs>>

\* minimize_with_lbfgs: the assignment of init_img (lines 411-412).
LbfgsAssign ==
  /\ pc = "lbfgs_assign"
  /\ input' = init_img
  /\ block' = 0
  /\ pc' = "lbfgs_block"
  /\ UNCHANGED <<argv, args, failure, missing, content_img, style_imgs, net,
                 style_index, refs, iteration, steps, writes, dirs>>

\* A slip: the block's image is written before the block is minimised.
LbfgsBlockWriteFirst ==
  /\ pc = "lbfgs_block"
  /\ block < args.blocks
  /\ Checkpoint(block, args.max_iterations, input, steps)
  /\ steps' = steps + 1
  /\ input' = Optimized(steps')
  /\ block' = block + 1
  /\ UNCHANGED <<argv, args, pc, failure, missing, content_img, style_imgs, net,
                 style_index, refs, iteration>>

\* minimize_with_lbfgs: one block (lines 413-419): a run of the optimiser, of
\* at most max_iterations iterations, then the checkpoint.
LbfgsBlock ==
  /\ pc = "lbfgs_block"
  /\ block < args.blocks
  /\ steps' = steps + 1
  /\ input' = Optimized(steps')
  /\ Checkpoint(block, args.max_iterations, input', steps')
  /\ block' = block + 1
  /\ UNCHANGED <<argv, args, pc, failure, missing, content_img, style_imgs, net,
                 style_index, refs, iteration>>

\* minimize_with_lbfgs returns (line 413, the loop's exit).
LbfgsReturn ==
  /\ pc = "lbfgs_block"
  /\ ~(block < args.blocks)
  /\ pc' = "write_image_output"
  /\ UNCHANGED <<argv, args, failure, missing, content_img, style_imgs, net,
                 style_index, input, refs, block, iteration, steps, writes, dirs>>

\* minimize_with_adam: train_op and the initialiser (lines 423-425).
AdamInitialize ==
  /\ pc = "minimize_with_adam"
  /\ input' = Zeros
  /\ pc' = "adam_assign"
  /\ UNCHANGED <<argv, args, failure, missing, content_img, style_imgs, net,
                 style_index, refs, block, iteration, steps, writes, dirs>>

\* A slip: the assignment of init_img is left out.
AdamAssignNothing ==
  /\ pc = "adam_assign"
  /\ block' = 0
  /\ pc' = "adam_block"
  /\ UNCHANGED <<argv, args, failure, missing, content_img, style_imgs, net,
                 style_index, input, refs, iteration, steps, writes, dirs>>

\* minimize_with_adam: the assignment of init_img (lines 426-427).
AdamAssign ==
  /\ pc = "adam_assign"
  /\ input' = init_img
  /\ block' = 0
  /\ pc' = "adam_block"
  /\ UNCHANGED <<argv, args, failure, missing, content_img, style_imgs, net,
                 style_index, refs, iteration, steps, writes, dirs>>

\* minimize_with_adam: the outer loop's test (lines 428-430); at its exit the
\* function returns.
AdamBlock ==
  /\ pc = "adam_block"
  /\ IF block < args.blocks
       THEN /\ iteration' = 0
            /\ pc' = "adam_iteration"
       ELSE /\ pc' = "write_image_output"
            /\ UNCHANGED iteration
  /\ UNCHANGED <<argv, args, failure, missing, content_img, style_imgs, net,
                 style_index, input, refs, block, steps, writes, dirs>>

\* A slip: the inner loop stops one iteration short.
adam_iterating_short == iteration + 1 < args.max_iterations

\* The inner loop's test (line 431).
adam_iterating == iteration < args.max_iterations

\* minimize_with_adam: one iteration (lines 432-440).  A print_iterations of 0
\* makes the modulo of line 434 raise, after the step.
AdamStep ==
  /\ pc = "adam_iteration"
  /\ adam_iterating
  /\ steps' = steps + 1
  /\ input' = Optimized(steps')
  /\ IF args.print_iterations = 0
       THEN /\ Raise("ZeroDivisionError")
            /\ UNCHANGED <<iteration, writes, dirs>>
       ELSE /\ IF iteration % args.print_iterations = 0 /\ args.verbose
                 THEN Checkpoint(block, iteration, input', steps')
                 ELSE UNCHANGED <<writes, dirs>>
            /\ iteration' = iteration + 1
            /\ UNCHANGED <<pc, failure>>
  /\ UNCHANGED <<argv, args, missing, content_img, style_imgs, net, style_index,
                 refs, block>>

\* minimize_with_adam: the end of a block (line 441).
AdamBlockEnd ==
  /\ pc = "adam_iteration"
  /\ ~adam_iterating
  /\ block' = block + 1
  /\ pc' = "adam_block"
  /\ UNCHANGED <<argv, args, failure, missing, content_img, style_imgs, net,
                 style_index, input, refs, iteration, steps, writes, dirs>>

\* stylize's last lines (403-405) and write_image_output (lines 483-513): the
\* output image, the content image, the style images and the metadata, all in
\* the directory of get_image_savename(args.blocks, 0).
WriteImageOutput ==
  /\ pc = "write_image_output"
  /\ LET dir == out_dir(args.blocks, 0)
     IN  /\ writes' = writes
              \o << Written("output", dir, img_name(args.blocks, 0),
                            <<args.blocks, 0>>, input, steps),
                    Written("content", dir, "0content.png", <<0, 0>>, content_img,
                            steps) >>
              \o [i \in 1..Len(style_imgs) |->
                    Written("style", dir, "index_style.png", <<i - 1, 0>>,
                            style_imgs[i], steps)]
              \o << Written("meta_data", dir, "meta_data.txt", <<0, 0>>, Uninit,
                            steps) >>
         /\ dirs' = maybe_make_directory(dirs, dir)
  /\ pc' = "done"
  /\ UNCHANGED <<argv, args, failure, missing, content_img, style_imgs, net,
                 style_index, input, refs, block, iteration, steps>>

Next ==
  \/ ParseArgs
  \/ GetContentImage
  \/ GetStyleImages
  \/ BuildModel
  \/ SumStyleLosses
  \/ SumContentLosses
  \/ LbfgsInitialize
  \/ LbfgsAssign
  \/ LbfgsBlock
  \/ LbfgsReturn
  \/ AdamInitialize
  \/ AdamAssign
  \/ AdamBlock
  \/ AdamStep
  \/ AdamBlockEnd
  \/ WriteImageOutput

Spec == Init /\ [][Next]_vars

\* The Adam renders of one style image and the default lists of layers.
AdamCommandLines ==
  {a \in CommandLines :
     /\ a.optimizer = "adam"
     /\ a.style_imgs = <<"s1.jpg">>
     /\ a.style_imgs_weights = Ones(1)
     /\ a.style_layers = <<"relu1_1">>
     /\ a.style_layer_weights = Ones(1)
     /\ a.content_layers = <<"conv4_2">>}

AdamStart == Start(AdamCommandLines)

\* The steps of a render after parse_args.
AdamRender ==
  \/ GetContentImage
  \/ GetStyleImages
  \/ BuildModel
  \/ SumStyleLosses
  \/ SumContentLosses
  \/ AdamInitialize
  \/ AdamAssign
  \/ AdamBlock
  \/ AdamStep
  \/ AdamBlockEnd
  \/ WriteImageOutput

AdamNext == ParseArgs \/ AdamRender

\* The program is one thread, which runs until it returns or raises.
AdamSpec == AdamStart /\ [][AdamNext]_vars /\ WF_vars(AdamRender)

\* The command lines that set --style_imgs_weights and leave the other options
\* at their defaults (lines 33-128).
NormCommandLines ==
  [verbose: {FALSE}, img_name: {FALSE},
   style_imgs: {<<"s1.jpg", "s2.jpg">>},
   style_imgs_weights: WordLists(MaxLen),
   content_layers: {<<"conv4_2">>},
   content_layer_weights: {Ones(1)},
   style_layers: {<<"relu1_1", "relu2_1", "relu3_1", "relu4_1", "relu5_1">>},
   style_layer_weights: {[i \in 1..5 |-> <<2, 10>>]},
   optimizer: {"lbfgs"}, blocks: {1},
   max_iterations: {1000}, print_iterations: {50}]

NormInit == Start(NormCommandLines)

\* parse_args alone: the weights as typed, then normalised.
NormNext == ParseArgs

SpecNorm == NormInit /\ [][NormNext]_vars

(***************************************************************************)
(* The claims.                                                             *)
(***************************************************************************)
Checkpoints == SelectSeq(writes, LAMBDA w : w.what = "checkpoint")

Outputs == SelectSeq(writes, LAMBDA w : w.what = "output")

\* The writes of kind `what` all come before the writes of kind `later`.
Before(what, later) ==
  \A i, j \in 1..Len(writes) :
    writes[i].what = what /\ writes[j].what = later => i < j

\* The iterations i of 0..N-1 with i mod P = 0 are 0, P, 2P, ...: Due(N, P) of them.
Due(N, P) == (N + P - 1) \div P

\* The checkpoints of B blocks of N iterations at interval P, in order.
AdamExpected(B, N, P) ==
  [j \in 1..(B * Due(N, P)) |->
     <<(j - 1) \div Due(N, P), ((j - 1) % Due(N, P)) * P>>]

\* C1: a finished Adam render with interval P >= 1 has written a checkpoint at
\* exactly the iterations i of 0..N-1 of each block with i mod P = 0, each right
\* after that iteration's step, and then exactly one final output.
C1_AdamCheckpointsEveryP ==
  (pc = "done" /\ args.optimizer = "adam" /\ args.print_iterations >= 1) =>
    /\ [j \in 1..Len(Checkpoints) |-> Checkpoints[j].at]
         = AdamExpected(args.blocks, args.max_iterations, args.print_iterations)
    /\ \A j \in 1..Len(Checkpoints) :
         Checkpoints[j].steps
           = Checkpoints[j].at[1] * args.max_iterations + Checkpoints[j].at[2] + 1
    /\ Len(Outputs) = 1
    /\ Before("checkpoint", "output")

C3_OutputAtTopLevel ==
  (args.blocks >= 1 /\ args.max_iterations >= 1) =>
    \A i \in 1..Len(writes) :
      writes[i].dir = IF writes[i].what = "checkpoint" THEN "out_dir/iters"
                                                        ELSE "out_dir"

\* The steps an Adam render still has to take: a number that every step of the
\* program makes smaller.
AdamRank ==
  LET B == args.blocks
      N == args.max_iterations
      loops == 3 + B * (N + 2)
      imgs == Min(Len(args.style_imgs), Len(args.style_imgs_weights))
  IN  CASE pc = "parse_args"          -> loops + imgs + 6
        [] pc = "get_content_image"   -> loops + imgs + 5
        [] pc = "get_style_images"    -> loops + imgs + 4
        [] pc = "build_model"         -> loops + imgs + 3
        [] pc = "sum_style_losses"    -> loops + (imgs - style_index) + 2
        [] pc = "sum_content_losses"  -> loops + 2
        [] pc = "minimize_with_adam"  -> loops + 1
        [] pc = "adam_assign"         -> loops
        [] pc = "adam_block"          -> 2 + (B - block) * (N + 2)
        [] pc = "adam_iteration"      -> 2 + (B - block - 1) * (N + 2)
                                           + (N - iteration) + 1
        [] pc = "write_image_output"  -> 1
        [] OTHER                      -> 0

\* C4: an Adam render takes no step beyond blocks * max_iterations and is done
\* only after exactly that many; every step brings it nearer to its end, and
\* once its arguments are parsed it comes to its end, done or failed.
C4_AdamRunsAllSteps ==
  /\ [][args.optimizer = "adam" =>
          /\ steps' <= args.blocks * args.max_iterations
          /\ pc' = "done" => steps' = args.blocks * args.max_iterations
          /\ AdamRank' < AdamRank]_vars
  /\ (args.optimizer = "adam" /\ pc # "parse_args")
       ~> (pc \in {"done", "failed"})

C4_Witness ==
  /\ pc = "done"
  /\ args.optimizer = "adam"
  /\ args.blocks = 2
  /\ args.max_iterations = 2
  /\ steps = 4

\* A list of names and its list of weights differ in length.
Mismatched ==
  \/ Len(args.content_layers) # Len(args.content_layer_weights)
  \/ Len(args.style_layers) # Len(args.style_layer_weights)
  \/ Len(args.style_imgs) # Len(args.style_imgs_weights)

\* C5: a render whose names and weights differ in length takes no optimiser
\* step and does not come to a normal end.
C5_MismatchRejected == Mismatched => (steps = 0 /\ pc # "done")

\* C6: once a file has been found missing the render has failed, there and
\* then: nothing else was looked for, no file is written, no optimiser step
\* is taken, and no directory but the configured output directory is made.
C6_MissingFileAborts ==
  missing # {} =>
    /\ pc = "failed"
    /\ failure \in {"OSError", "IOError"}
    /\ Cardinality(missing) = 1
    /\ writes = <<>>
    /\ steps = 0
    /\ dirs \subseteq {"img_output_dir"}

C6_Witness ==
  /\ missing = {"model_weights"}
  /\ pc = "failed"
  /\ dirs = {"img_output_dir"}
  /\ style_imgs # <<>>

\* The weights as typed and as parse_args leaves them.
Typed == Floats(argv.style_imgs_weights)

Effective == args.style_imgs_weights

Parsed == pc # "parse_args"

NonNegative(w) == \A i \in 1..Len(w) : ~w[i].neg

AllZero(w) == \A i \in 1..Len(w) : IsZero(w[i])

\* Sum of the magnitudes, left to right.
SumAbs(w) == sum([i \in 1..Len(w) |-> FAbs(w[i])])

\* |x - y| <= tol.
Near(x, y, tol) == FLeq(FAbs(FAdd(x, FNeg(y))), tol)

\* Two lists of one length, entry by entry within tol.
AllNear(v, w, tol) ==
  Len(v) = Len(w) /\ \A i \in 1..Len(v) : Near(v[i], w[i], tol)

Quotients(w) == [i \in 1..Len(w) |-> FDiv(w[i], sum(w))]

\* Rounding allowances, in units of 2^-53 (half the spacing of floats at 1).
SumTol(r) == FScale(FTimes(2 * Len(r) + 1, SumAbs(r)), -53)

EntryTol(w) == FScale(FromInt(2 * Len(w) + 3), -53)

\* c * w, entry by entry.
Scaled(c, w) == [i \in 1..Len(w) |-> FTimes(c, w[i])]

Scales == {2, 3, 10}

\* C7 as stated: the length is kept; a positive sum gives the quotients
\* w[i]/sum(w), which sum to exactly 1; any other sum gives zeros.
C7_NormalizeSumsToOne ==
  Parsed =>
    /\ Len(Effective) = Len(Typed)
    /\ FPos(sum(Typed)) => /\ Effective = Quotients(Typed)
                           /\ sum(Effective) = FromInt(1)
    /\ ~FPos(sum(Typed)) => AllZero(Effective)

\* C7, amended: the length is kept; a positive sum gives the float quotients
\* w[i]/sum(w), which sum to 1 within (2n+1) * 2^-53 * sum|entries|; any other
\* sum gives zeros.
C7_NormalizeSumsNearOne ==
  Parsed =>
    /\ Len(Effective) = Len(Typed)
    /\ FPos(sum(Typed)) =>
         /\ Effective = Quotients(Typed)
         /\ Near(sum(Effective), FromInt(1), SumTol(Effective))
    /\ ~FPos(sum(Typed)) => AllZero(Effective)

\* 0.1 0.3 has been normalised: quotients that do not sum to 1.
C7_Witness ==
  /\ Parsed
  /\ argv.style_imgs_weights = << <<1, 10>>, <<3, 10>> >>
  /\ Effective = Quotients(Typed)
  /\ sum(Effective) # FromInt(1)

\* C8 as stated: for weights of positive sum, scaling them by c > 0 leaves
\* the normalised weights the same, and so does normalising them again.
C8_ScaleInvariantIdempotent ==
  (Parsed /\ FPos(sum(Typed))) =>
    /\ \A c \in Scales : normalize(Scaled(c, Typed)) = Effective
    /\ normalize(Effective) = Effective

\* C8, amended: for weights >= 0 of positive sum, scaling them by c > 0, or
\* normalising them again, moves no normalised weight by more than
\* (2n+3) * 2^-53; scaling by 2 moves none at all; and 0.3 0.7 gives exactly
\* the weights that 3 7 gives.
C8_ScaleInvariantWithinRounding ==
  (Parsed /\ FPos(sum(Typed)) /\ NonNegative(Typed)) =>
    /\ \A c \in Scales :
         AllNear(normalize(Scaled(c, Typed)), Effective, EntryTol(Typed))
    /\ normalize(Scaled(2, Typed)) = Effective
    /\ AllNear(normalize(Effective), Effective, EntryTol(Typed))
    /\ argv.style_imgs_weights = << <<3, 10>>, <<7, 10>> >> =>
         Effective = normalize(Floats(<< <<3, 1>>, <<7, 1>> >>))

\* 0.1 0.3 has been normalised: ten times the weights typed normalise to
\* other weights, within the allowance.
C8_Witness ==
  /\ Parsed
  /\ argv.style_imgs_weights = << <<1, 10>>, <<3, 10>> >>
  /\ normalize(Scaled(10, Typed)) # Effective
  /\ AllNear(normalize(Scaled(10, Typed)), Effective, EntryTol(Typed))

ConvLayers == SelectSeq(net, LAMBDA l : l.op = "conv2d")

\* The index into net of the k-th convolution.
RECURSIVE ConvAt(_, _)
ConvAt(k, from) ==
  IF net[from].op = "conv2d"
    THEN IF k = 1 THEN from ELSE ConvAt(k - 1, from + 1)
    ELSE ConvAt(k, from + 1)

BlockSizes == <<2, 2, 4, 4, 4>>

\* The layers before the b-th block: its convolutions and relus, and its pool.
RECURSIVE BlockStart(_)
BlockStart(b) == IF b = 1 THEN 0 ELSE BlockStart(b - 1) + 2 * BlockSizes[b - 1] + 1

\* C9: the network is 5 blocks of 2, 2, 4, 4 and 4 convolution+relu pairs, each
\* block followed by one pool; every layer reads the layer before it, the first
\* the input; the store index starts at 0 and grows by 2 from one convolution
\* to the next in a block and by 3 across a pool; a relu takes its bias from
\* the index of its convolution.
C9_Vgg19Topology ==
  net # <<>> =>
    /\ Len(ConvLayers) = 16
    /\ Len(net) = BlockStart(5) + 2 * BlockSizes[5] + 1
    /\ \A b \in 1..5 :
         /\ \A k \in 1..BlockSizes[b] :
              /\ net[BlockStart(b) + 2 * k - 1].op = "conv2d"
              /\ net[BlockStart(b) + 2 * k].op = "relu"
         /\ net[BlockStart(b) + 2 * BlockSizes[b] + 1].op = "avg_pool"
    /\ net[1].input = "input"
    /\ \A i \in 2..Len(net) : net[i].input = net[i - 1].name
    /\ \A i \in 1..Len(net) :
         /\ net[i].op = "conv2d" => net[i].param[2] = 0
         /\ net[i].op = "relu" =>
              net[i].param = <<net[i - 1].param[1], 1>>
    /\ ConvLayers[1].param[1] = 0
    /\ \A k \in 1..(Len(ConvLayers) - 1) :
         ConvLayers[k + 1].param[1] - ConvLayers[k].param[1]
           = IF net[ConvAt(k + 1, 1) - 1].op = "avg_pool" THEN 3 ELSE 2

C9_Witness == Len(net) = 37 /\ pc = "sum_style_losses"

\* The optimisation loops, and what comes after them.
Optimizing ==
  pc \in {"lbfgs_block", "adam_block", "adam_iteration", "write_image_output", "done"}

\* C10: when the first optimiser step runs, net['input'] holds the initial
\* image, which is the content image; from the loops on, it changes with an
\* optimiser step and with nothing else.
C10_InputIsInitThenOptimized ==
  /\ [][steps = 0 /\ steps' = 1 => input = init_img /\ input = ContentImage]_vars
  /\ [][Optimizing /\ steps' = steps => input' = input]_vars
  /\ [][steps' # steps => steps' = steps + 1 /\ input' = Optimized(steps')]_vars

C10_Witness ==
  /\ style_index = 2
  /\ steps = 2
  /\ input = Optimized(2)
  /\ Len(Checkpoints) = 2

\* The reference activations computed so far for layer `layer` of image k
\* (k = 0 for the content image).
Computed(loss, k, layer) ==
  {j \in 1..Len(refs) :
     refs[j].loss = loss /\ refs[j].img = k /\ refs[j].layer = layer}

\* The image a reference activation belongs to.
OwnImage(r) == IF r.loss = "style" THEN StyleImage(r.img) ELSE ContentImage

\* The losses are set up: the program is in a minimiser or past it.
ReferencesDue ==
  \/ steps > 0
  \/ pc \in {"minimize_with_lbfgs", "lbfgs_assign", "lbfgs_block",
             "minimize_with_adam", "adam_assign", "adam_block",
             "adam_iteration", "write_image_output", "done"}

\* C11 (the part that holds): every reference activation that has been
\* computed was computed once, with the input holding its own image, and
\* while no optimiser step had been taken.
C11_ComputedFromOwnImage ==
  /\ \A j \in 1..Len(refs) :
       /\ refs[j].of = OwnImage(refs[j])
       /\ Computed(refs[j].loss, refs[j].img, refs[j].layer) = {j}
  /\ pc \in {"sum_style_losses", "sum_content_losses"} => steps = 0

\* C11 (the part that holds): a stored reference activation is never changed
\* or dropped, and none is added once the optimiser has been entered.
C11_ReferencesKept ==
  [][/\ Len(refs') >= Len(refs)
     /\ SubSeq(refs', 1, Len(refs)) = refs
     /\ ReferencesDue => refs' = refs]_vars

\* C11: by the time the optimiser is entered there is exactly one reference
\* activation for each content layer and one for each style layer of each
\* style image, each computed with the input holding its own image and
\* before any optimiser step.
C11_ReferencePerLayer ==
  /\ C11_ComputedFromOwnImage
  /\ ReferencesDue =>
       /\ \A l \in 1..Len(args.content_layers) :
            Cardinality(Computed("content", 0, args.content_layers[l])) = 1
       /\ \A k \in 1..Len(style_imgs) : \A l \in 1..Len(args.style_layers) :
            Cardinality(Computed("style", k, args.style_layers[l])) = 1

\* A render of lists of equal lengths is in its optimiser with all its
\* reference activations: two style layers of two images, one content layer.
C11_AllComputed ==
  /\ ~Mismatched
  /\ steps = 1
  /\ Len(refs) = 5
  /\ Len(style_imgs) = 2

====
